---- MODULE Spec2Model ----
(***************************************************************************)
(* Model of blitzdb/backends/mongo/backend.py: the MongoDB Backend's       *)
(* deferred-write caches (_save_cache, _delete_cache, _update_cache), the  *)
(* calls that stage into them or write straight to the collection          *)
(* (delete_by_primary_keys, delete, save_multiple, save, update) and       *)
(* begin / commit / rollback.                                              *)
(***************************************************************************)
EXTENDS Integers, FiniteSets, Sequences, TLC

\* ---------------------------------------------------------------- bounds
NumPks == 2        \* primary keys 1..NumPks
MaxObjs == 2       \* longest list handed to save_multiple
MaxCalls == 3      \* calls made on one Backend instance
NumKeys == 3       \* cache keys 1..NumKeys
MaxSize == 2       \* largest CacheManager(max_size)
MaxCacheCalls == 4 \* calls made on one CacheManager instance
MaxBatchSize == 2  \* largest batch_size
MaxBatchObjs == 3  \* longest list handed to a batch operation
MaxBatchCalls == 2 \* batch operations run on one list of objects
MaxItems == 2      \* most items of a list or tuple in a query
MaxPasses == 2     \* _canonicalize_query calls on one query
MaxKeyLen == 3     \* longest key of a mapping handed to DotEncoder

PKs == 1..NumPks
None == 0                          \* obj.pk == None
Colls == {"actor"}                 \* get_collection_for_cls(cls)
Fields == {"name", "age"}
Vals == {"a", "b"}

\* dicts keyed by a subset of D with values in R
Dicts(D, R) == UNION {[S -> R] : S \in SUBSET D}
EmptyDict == [k \in {} |-> "a"]

\* attributes of a Document other than its pk
Attrs == Dicts(Fields, Vals)
\* the attributes of the documents handed to save / save_multiple
SaveAttrs == {EmptyDict, [k \in {"name"} |-> "a"]}

\* d with d[k] = v
DictPut(d, k, v) == [j \in (DOMAIN d) \cup {k} |-> IF j = k THEN v ELSE d[j]]

VARIABLES
    autocommit,     \* self.autocommit
    db,             \* self.db[collection]: _id -> stored attributes
    save_cache,     \* self._save_cache[collection]: pk -> attributes
    delete_cache,   \* self._delete_cache[collection]: the pks mapped to True
    update_cache,   \* self._update_cache[collection]: pk -> update dict
    lastInstr,      \* history: the latest update instruction per field
    ncalls,         \* number of calls made so far
    lastCall        \* the latest call: what it was, how it ended

\* Backend.CacheManager (lines 212-227)
VARIABLES
    max_size,       \* self.max_size
    cache,          \* self._cache: a dict, kept in its iteration order
    inserted,       \* history: when each held key entered the cache (0: not held)
    sets,           \* history: the keys set since the cache was last empty
    cacheCall       \* the latest CacheManager call: what it was, what it found

\* Backend.save_update, _batch_save_objects, _batch_delete_objects (lines 145-210)
VARIABLES
    batch_size,     \* self._batch_size
    objects,        \* the caller's list of documents: objects[i].pk
    store,          \* the collection behind store_key: pairs <<_id, document>>
    uuids,          \* number of uuid4() values drawn so far
    batchCall       \* the latest batch call: what it was given, how it ended

\* Backend._canonicalize_query (lines 412-461)
VARIABLES
    use_pk_based_refs,  \* self._use_pk_based_refs
    query,              \* the query the caller holds
    queryCall           \* the latest _canonicalize_query call: argument and result

\* DotEncoder (lines 47-72)
VARIABLES
    mapping,        \* the dict the caller holds
    dotCall         \* the latest DotEncoder call: argument, result, exception

backendVars == <<autocommit, db, save_cache, delete_cache, update_cache,
                 lastInstr, lastCall>>
cacheVars == <<max_size, cache, inserted, sets, cacheCall>>
batchVars == <<batch_size, objects, store, uuids, batchCall>>
queryVars == <<use_pk_based_refs, query, queryCall>>
dotVars == <<mapping, dotCall>>
otherVars == <<cacheVars, batchVars, queryVars, dotVars>>
exceptCache == <<backendVars, batchVars, queryVars, dotVars>>
exceptBatch == <<backendVars, cacheVars, queryVars, dotVars>>
exceptQuery == <<backendVars, cacheVars, batchVars, dotVars>>
exceptDot == <<backendVars, cacheVars, batchVars, queryVars>>

vars == <<backendVars, ncalls, otherVars>>

caches == <<save_cache, delete_cache, update_cache>>

\* ------------------------------------------------------- the latest call
\* op: the method called; cls: its collection; args: the pks handed in (None
\* for a document without one); pks: the pks the call works on; nonempty:
\* whether the call has anything to stage or write; result: "ok" or the
\* exception raised; writes: the operations sent to self.db[collection];
\* obj: the attributes of the document handed to update() when the call
\* ends; saved / deleted / updated: the pks of the call that were in the
\* save / delete / update cache when it was made; pending: for commit, the
\* delete cache when it was made.
NoPending == [c \in Colls |-> {}]

Call(op, cls, args, pks, nonempty, result, writes) ==
    [op |-> op, cls |-> cls, args |-> args, pks |-> pks, nonempty |-> nonempty,
     result |-> result, writes |-> writes,
     mode |-> IF autocommit THEN "autocommit" ELSE "deferred",
     obj |-> EmptyDict,
     saved |-> IF cls \in Colls THEN pks \cap DOMAIN save_cache[cls] ELSE {},
     deleted |-> IF cls \in Colls THEN pks \cap delete_cache[cls] ELSE {},
     updated |-> IF cls \in Colls THEN pks \cap DOMAIN update_cache[cls] ELSE {},
     pending |-> IF op = "commit" THEN delete_cache ELSE NoPending]

Write(kind, pk) == [kind |-> kind, pk |-> pk]

\* -------------------------------------------------------------- helpers
\* serialize() of a scalar attribute value (BaseBackend.serialize)
serialize(value) == value

\* the update_dict of update(): "$set" and "$unset"; a key the code leaves
\* out of the dict is the empty side here, since the code reads a side only
\* through '"$set" in update_cache and key in update_cache["$set"]'
UpdateDict(set_attributes, unset_attributes) ==
    [set |-> set_attributes, unset |-> unset_attributes]

\* update(), the branch that merges into an existing update_cache entry:
\* first every key of set_attributes, then every key of unset_attributes
MergeSet(update_cache_entry, set_attributes) ==
    [set |-> [k \in (DOMAIN update_cache_entry.set) \cup (DOMAIN set_attributes) |->
                 IF k \in DOMAIN set_attributes THEN set_attributes[k]
                 ELSE update_cache_entry.set[k]],
     unset |-> update_cache_entry.unset \ (DOMAIN set_attributes)]

MergeUnset(update_cache_entry, unset_attributes) ==
    [set |-> [k \in (DOMAIN update_cache_entry.set) \ unset_attributes |->
                 update_cache_entry.set[k]],
     unset |-> update_cache_entry.unset \cup unset_attributes]

MergeUpdate(update_cache_entry, set_attributes, unset_attributes) ==
    MergeUnset(MergeSet(update_cache_entry, set_attributes), unset_attributes)

\* self.db[collection].update({"_id": pk}, update_dict): the server refuses
\* an update_dict that names one field under both $set and $unset
Conflicting(update_dict) == (DOMAIN update_dict.set) \cap update_dict.unset # {}

\* what self.db[collection].update({"_id": pk}, update_dict) leaves of a
\* stored document: the $set keys written, the $unset keys removed
MongoUpdate(doc, update_dict) ==
    [k \in ((DOMAIN doc) \cup (DOMAIN update_dict.set)) \ update_dict.unset |->
        IF k \in DOMAIN update_dict.set THEN update_dict.set[k] ELSE doc[k]]

\* the history of update instructions staged for one pk: an unset of a
\* field is issued after a set of it in the same call
Instruct(instr, set_attributes, unset_attributes) ==
    [f \in Fields |->
        IF f \in unset_attributes THEN "unset"
        ELSE IF f \in DOMAIN set_attributes THEN set_attributes[f]
        ELSE instr[f]]

\* every pk that is in the store, in a cache, or carried by a document
UsedPks(objs) ==
    UNION {DOMAIN db[c] \cup DOMAIN save_cache[c] \cup delete_cache[c]
             \cup DOMAIN update_cache[c] : c \in Colls}
      \cup {objs[i].pk : i \in DOMAIN objs}

\* the documents handed to save / save_multiple
Docs == [pk : PKs \cup {None}, attributes : SaveAttrs]
DocLists == UNION {[1..n -> Docs] : n \in 0..MaxObjs}

\* save_multiple(), first loop: obj.pk after 'if obj.pk == None: obj.pk =
\* uuid.uuid4().hex'; uuid4 is a pk no document, cache or store uses yet
Assignments(objs) ==
    {a \in [DOMAIN objs -> PKs] :
        /\ \A i \in DOMAIN objs : objs[i].pk # None => a[i] = objs[i].pk
        /\ \A i \in DOMAIN objs : objs[i].pk = None => a[i] \notin UsedPks(objs)
        /\ \A i, j \in DOMAIN objs :
              (objs[i].pk = None /\ objs[j].pk = None /\ i # j) => a[i] # a[j]}

\* save_multiple(), second loop over serialized_attributes_list: the dict
\* after 'd[attributes["pk"]] = attributes' for each element in order
\* (a Document keeps its pk among its attributes, so attributes["pk"] is
\* obj.pk); the dict is keyed by pk and holds the other attributes
SaveAll(d, objs, pk) ==
    [k \in (DOMAIN d) \cup {pk[i] : i \in DOMAIN objs} |->
        IF \E i \in DOMAIN objs : pk[i] = k
        THEN LET last == CHOOSE i \in DOMAIN objs :
                            /\ pk[i] = k
                            /\ \A j \in DOMAIN objs : pk[j] = k => j <= i
             IN  [f \in DOMAIN objs[last].attributes |->
                      serialize(objs[last].attributes[f])]
        ELSE d[k]]

RemoveAll(d, pks) == [k \in (DOMAIN d) \ pks |-> d[k]]

\* update(): serialize_fields(fields) for a dict, a list/tuple of keys read
\* from obj with get_value (a missing key is skipped), or no fields at all
FieldArgs ==
    [kind : {"dict"}, dict : Attrs, keys : {{}}]
      \cup [kind : {"list"}, dict : {EmptyDict}, keys : {Fields}]

\* the documents handed to update
UpdateDocs == [pk : PKs \cup {None}, attributes : {[k \in {"name"} |-> "a"]}]

serialize_fields(obj, fields) ==
    IF fields.kind = "list"
    THEN [k \in fields.keys \cap DOMAIN obj.attributes |-> obj.attributes[k]]
    ELSE fields.dict

\* update(): 'obj.pk in self._delete_cache[collection]'
MarkedForDeletionNever(cls, pk) == FALSE
MarkedForDeletion(cls, pk) == pk \in delete_cache[cls]

\* update(): the entry of self._update_cache[collection][obj.pk] after the call
StageUpdate(cls, pk, set_attributes, unset_attributes) ==
    IF pk \in DOMAIN update_cache[cls]
    THEN MergeUpdate(update_cache[cls][pk], set_attributes, unset_attributes)
    ELSE UpdateDict(set_attributes, unset_attributes)

\* delete(): self._save_cache[collection] after the call
DeleteFromSaveCacheKept(d, pk) == d
DeleteFromSaveCache(d, pk) == RemoveAll(d, {pk})

\* save_multiple(): self._delete_cache[collection] after the call
SaveFromDeleteCacheKept(deleted, pks) == deleted
SaveFromDeleteCache(deleted, pks) == deleted \ pks

\* 'if self.autocommit:' in delete_by_primary_keys, delete, save_multiple, update
ImmediateAlways == TRUE
Immediate == autocommit

\* delete(): 'if obj.pk == None: raise obj.DoesNotExist'
NoPkToDeleteNever(obj) == FALSE
NoPkToDelete(obj) == obj.pk = None

\* update(): 'if obj.pk == None: raise obj.DoesNotExist(...)'
NoPkToUpdate(obj) == obj.pk = None

\* update(): obj after 'if update_obj:' has set and deleted its values
UpdateObj(attributes, set_attributes, unset_attributes) ==
    [k \in ((DOMAIN attributes) \cup (DOMAIN set_attributes)) \ unset_attributes |->
        IF k \in DOMAIN set_attributes THEN set_attributes[k] ELSE attributes[k]]

\* ---------------------------------------------------------------- Init
\* what the collection holds when the Backend is constructed: one document
InitialStores == {[k \in {1} |-> [f \in {"name"} |-> "b"]]}

\* No CacheManager is in use: the Backend's calls never touch one.
CacheIdle ==
    /\ max_size = 1
    /\ cache = <<>>
    /\ inserted = [k \in {} |-> 0]
    /\ sets = <<>>
    /\ cacheCall = [op |-> "init"]

\* No batch operation is in use.
BatchIdle ==
    /\ batch_size = 1
    /\ objects = <<>>
    /\ store = {}
    /\ uuids = 0
    /\ batchCall = [op |-> "init"]

\* No query is being canonicalized.
QueryIdle ==
    /\ use_pk_based_refs = FALSE
    /\ query = [t |-> "init"]
    /\ queryCall = [op |-> "init"]

\* No DotEncoder call is made.
DotIdle ==
    /\ mapping = <<>>
    /\ dotCall = [op |-> "init"]

OthersIdle == CacheIdle /\ BatchIdle /\ QueryIdle /\ DotIdle

Init ==
    /\ OthersIdle
    /\ autocommit \in BOOLEAN
    /\ db \in [Colls -> InitialStores]
    /\ save_cache = [c \in Colls |-> EmptyDict]
    /\ delete_cache = [c \in Colls |-> {}]
    /\ update_cache = [c \in Colls |-> EmptyDict]
    /\ lastInstr = [c \in Colls |-> [pk \in PKs |-> [f \in Fields |-> "none"]]]
    /\ ncalls = 0
    /\ lastCall = [op |-> "init", cls |-> "", args |-> {}, pks |-> {},
                   nonempty |-> FALSE, result |-> "ok", writes |-> {},
                   mode |-> IF autocommit THEN "autocommit" ELSE "deferred",
                   obj |-> EmptyDict, saved |-> {}, deleted |-> {}, updated |-> {},
                   pending |-> NoPending]

\* -------------------------------------------------------------- actions
\* begin / commit / rollback: raise NotInTransaction
begin ==
    /\ ncalls < MaxCalls
    /\ lastCall' = Call("begin", "", {}, {}, FALSE, "NotInTransaction", {})
    /\ ncalls' = ncalls + 1
    /\ UNCHANGED otherVars
    /\ UNCHANGED <<autocommit, db, save_cache, delete_cache, update_cache, lastInstr>>

commit ==
    /\ ncalls < MaxCalls
    /\ lastCall' = Call("commit", "", {}, {}, FALSE, "NotInTransaction", {})
    /\ ncalls' = ncalls + 1
    /\ UNCHANGED otherVars
    /\ UNCHANGED <<autocommit, db, save_cache, delete_cache, update_cache, lastInstr>>

rollback ==
    /\ ncalls < MaxCalls
    /\ lastCall' = Call("rollback", "", {}, {}, FALSE, "NotInTransaction", {})
    /\ ncalls' = ncalls + 1
    /\ UNCHANGED otherVars
    /\ UNCHANGED <<autocommit, db, save_cache, delete_cache, update_cache, lastInstr>>

delete_by_primary_keys(cls, pks) ==
    /\ ncalls < MaxCalls
    /\ IF Immediate
       THEN /\ db' = [db EXCEPT ![cls] = RemoveAll(@, pks)]
            /\ UNCHANGED caches
       ELSE /\ delete_cache' = [delete_cache EXCEPT ![cls] = @ \cup pks]
            /\ UNCHANGED <<db, save_cache, update_cache>>
    /\ lastCall' = Call("delete_by_primary_keys", cls, pks, pks, pks # {}, "ok",
                        IF Immediate THEN {Write("remove", pk) : pk \in pks} ELSE {})
    /\ ncalls' = ncalls + 1
    /\ UNCHANGED otherVars
    /\ UNCHANGED <<autocommit, lastInstr>>

delete(cls, obj) ==
    /\ ncalls < MaxCalls
    /\ IF NoPkToDelete(obj)
       THEN /\ lastCall' = Call("delete", cls, {obj.pk}, {}, TRUE, "DoesNotExist", {})
            /\ UNCHANGED <<db, save_cache, delete_cache, update_cache>>
       ELSE IF Immediate
       THEN /\ db' = [db EXCEPT ![cls] = RemoveAll(@, {obj.pk})]
            /\ lastCall' = Call("delete", cls, {obj.pk}, {obj.pk}, TRUE, "ok",
                                {Write("remove", obj.pk)})
            /\ UNCHANGED caches
       ELSE /\ delete_cache' = [delete_cache EXCEPT ![cls] = @ \cup {obj.pk}]
            /\ save_cache' = [save_cache EXCEPT ![cls] = DeleteFromSaveCache(@, obj.pk)]
            /\ lastCall' = Call("delete", cls, {obj.pk}, {obj.pk}, TRUE, "ok", {})
            /\ UNCHANGED <<db, update_cache>>
    /\ ncalls' = ncalls + 1
    /\ UNCHANGED otherVars
    /\ UNCHANGED <<autocommit, lastInstr>>

save_multiple(op, cls, objs) ==
    /\ ncalls < MaxCalls
    /\ IF objs = <<>>
       THEN /\ lastCall' = Call(op, cls, {}, {}, FALSE, "ok", {})
            /\ UNCHANGED <<db, save_cache, delete_cache, update_cache>>
       ELSE \E pk \in Assignments(objs) :
              LET pks == {pk[i] : i \in DOMAIN objs} IN
              /\ IF Immediate
                 THEN /\ db' = [db EXCEPT ![cls] = SaveAll(@, objs, pk)]
                      /\ UNCHANGED caches
                 ELSE /\ save_cache' = [save_cache EXCEPT ![cls] = SaveAll(@, objs, pk)]
                      /\ delete_cache' = [delete_cache EXCEPT
                                            ![cls] = SaveFromDeleteCache(@, pks)]
                      /\ UNCHANGED <<db, update_cache>>
              /\ lastCall' = Call(op, cls, {objs[i].pk : i \in DOMAIN objs}, pks, TRUE, "ok",
                                  IF Immediate THEN {Write("save", k) : k \in pks} ELSE {})
    /\ ncalls' = ncalls + 1
    /\ UNCHANGED otherVars
    /\ UNCHANGED <<autocommit, lastInstr>>

save(cls, obj) == save_multiple("save", cls, <<obj>>)

update(cls, obj, set_fields, unset_fields, update_obj) ==
    /\ ncalls < MaxCalls
    /\ IF NoPkToUpdate(obj)
       THEN /\ lastCall' = [Call("update", cls, {obj.pk}, {}, TRUE, "DoesNotExist", {})
                              EXCEPT !.obj = obj.attributes]
            /\ UNCHANGED <<db, save_cache, delete_cache, update_cache, lastInstr>>
       ELSE LET fields == serialize_fields(obj, set_fields)
                set_attributes == [k \in DOMAIN fields |-> serialize(fields[k])]
                unset_attributes == unset_fields
                after == IF update_obj
                         THEN UpdateObj(obj.attributes, set_attributes, unset_attributes)
                         ELSE obj.attributes
                update_dict == UpdateDict(set_attributes, unset_attributes)
            IN
            IF DOMAIN set_attributes = {} /\ unset_attributes = {}
            THEN /\ lastCall' = [Call("update", cls, {obj.pk}, {obj.pk}, FALSE, "ok", {})
                                   EXCEPT !.obj = after]
                 /\ UNCHANGED <<db, save_cache, delete_cache, update_cache, lastInstr>>
            ELSE IF Immediate
            THEN /\ db' = [db EXCEPT ![cls] =
                             IF obj.pk \in DOMAIN @ /\ ~Conflicting(update_dict)
                             THEN [@ EXCEPT ![obj.pk] = MongoUpdate(@, update_dict)]
                             ELSE @]
                 /\ lastCall' = [Call("update", cls, {obj.pk}, {obj.pk}, TRUE,
                                      IF Conflicting(update_dict)
                                      THEN "OperationFailure" ELSE "ok",
                                      {Write("update", obj.pk)})
                                   EXCEPT !.obj = after]
                 /\ UNCHANGED <<save_cache, delete_cache, update_cache, lastInstr>>
            ELSE IF MarkedForDeletion(cls, obj.pk)
            THEN /\ lastCall' = [Call("update", cls, {obj.pk}, {obj.pk}, TRUE,
                                      "DoesNotExist", {})
                                   EXCEPT !.obj = after]
                 /\ UNCHANGED <<db, save_cache, delete_cache, update_cache, lastInstr>>
            ELSE /\ update_cache' = [update_cache EXCEPT ![cls] =
                        DictPut(@, obj.pk,
                                StageUpdate(cls, obj.pk, set_attributes, unset_attributes))]
                 /\ lastInstr' = [lastInstr EXCEPT ![cls][obj.pk] =
                        Instruct(@, set_attributes, unset_attributes)]
                 /\ lastCall' = [Call("update", cls, {obj.pk}, {obj.pk}, TRUE, "ok", {})
                                   EXCEPT !.obj = after]
                 /\ UNCHANGED <<db, save_cache, delete_cache>>
    /\ ncalls' = ncalls + 1
    /\ UNCHANGED otherVars
    /\ UNCHANGED autocommit

\* ----------------------------------------------------------------- Next
Next ==
    \/ begin
    \/ commit
    \/ rollback
    \/ \E cls \in Colls, pks \in SUBSET PKs : delete_by_primary_keys(cls, pks)
    \/ \E cls \in Colls, obj \in Docs : delete(cls, obj)
    \/ \E cls \in Colls, objs \in DocLists : save_multiple("save_multiple", cls, objs)
    \/ \E cls \in Colls, obj \in Docs : save(cls, obj)
    \/ \E cls \in Colls, obj \in UpdateDocs, set_fields \in FieldArgs,
          unset_fields \in SUBSET Fields, update_obj \in BOOLEAN :
          update(cls, obj, set_fields, unset_fields, update_obj)

Spec == Init /\ [][Next]_vars


\* No Backend call is made: the state of a Backend nobody uses.
BackendIdle ==
    /\ autocommit = FALSE
    /\ db = [c \in Colls |-> EmptyDict]
    /\ save_cache = [c \in Colls |-> EmptyDict]
    /\ delete_cache = [c \in Colls |-> {}]
    /\ update_cache = [c \in Colls |-> EmptyDict]
    /\ lastInstr = [c \in Colls |-> [pk \in PKs |-> [f \in Fields |-> "none"]]]
    /\ lastCall = [op |-> "init"]

\* ========================================================== CacheManager
CacheKeys == 1..NumKeys
Absent == "None"                   \* dict.get(key) of a missing key

\* A dict is the sequence of its items in iteration order, which Python keeps
\* equal to the order in which the keys entered the dict.
Items(d) == {d[i] : i \in DOMAIN d}
Keys(d) == {d[i].key : i \in DOMAIN d}
Value(d, key) ==
    IF key \in Keys(d) THEN (CHOOSE it \in Items(d) : it.key = key).value ELSE Absent

\* self._cache.pop(next(iter(self._cache))): the first key in iteration order
PopLast(d) == SubSeq(d, 1, Len(d) - 1)
PopFirst(d) == Tail(d)

\* self._cache[key] = value: an existing key keeps its place
SetItem(d, key, value) ==
    IF key \in Keys(d)
    THEN [i \in DOMAIN d |-> IF d[i].key = key THEN [key |-> key, value |-> value] ELSE d[i]]
    ELSE Append(d, [key |-> key, value |-> value])

\* len(self._cache) >= self.max_size
Full(d) == Len(d) >= max_size

\* history: a key that stayed in the dict keeps its time, a key that entered
\* it (again) gets the time of this call
Stamp(old, kept, d, now) ==
    [k \in Keys(d) |-> IF k \in Keys(kept) THEN old[k] ELSE now]

CacheInit ==
    /\ max_size \in 1..MaxSize
    /\ cache = <<>>
    /\ inserted = [k \in {} |-> 0]
    /\ sets = <<>>
    /\ cacheCall = [op |-> "init", key |-> 0, value |-> Absent, result |-> Absent,
                    before |-> <<>>, was |-> [k \in {} |-> 0]]
    /\ ncalls = 0
    /\ BackendIdle /\ BatchIdle /\ QueryIdle /\ DotIdle

CacheManager_get(key) ==
    /\ ncalls < MaxCacheCalls
    /\ cacheCall' = [op |-> "get", key |-> key, value |-> Absent,
                     result |-> Value(cache, key), before |-> cache, was |-> inserted]
    /\ ncalls' = ncalls + 1
    /\ UNCHANGED <<max_size, cache, inserted, sets, exceptCache>>

CacheManager_set(key, value) ==
    /\ ncalls < MaxCacheCalls
    /\ LET kept == IF Full(cache) THEN PopFirst(cache) ELSE cache
       IN /\ cache' = SetItem(kept, key, value)
          /\ inserted' = Stamp(inserted, kept, cache', ncalls + 1)
    /\ sets' = Append(sets, key)
    /\ cacheCall' = [op |-> "set", key |-> key, value |-> value, result |-> Absent,
                     before |-> cache, was |-> inserted]
    /\ ncalls' = ncalls + 1
    /\ UNCHANGED <<max_size, exceptCache>>

CacheManager_clear ==
    /\ ncalls < MaxCacheCalls
    /\ cache' = <<>>
    /\ inserted' = [k \in {} |-> 0]
    /\ sets' = <<>>
    /\ cacheCall' = [op |-> "clear", key |-> 0, value |-> Absent, result |-> Absent,
                     before |-> cache, was |-> inserted]
    /\ ncalls' = ncalls + 1
    /\ UNCHANGED <<max_size, exceptCache>>

CacheNext ==
    \/ \E key \in CacheKeys : CacheManager_get(key)
    \/ \E key \in CacheKeys, value \in Vals : CacheManager_set(key, value)
    \/ CacheManager_clear

SpecCache == CacheInit /\ [][CacheNext]_vars

\* ======================================================== batch operations
Falsy == -1                        \* an assigned pk for which `not obj.pk` is true (0, "")
BatchPks == {None, Falsy} \cup PKs
Uuid(n) == NumPks + n              \* the n-th value of uuid.uuid4().hex

\* `not obj.pk`
NotPk(pk) == pk = None \/ pk = Falsy

Min(a, b) == IF a < b THEN a ELSE b

\* range(0, len(objects), self._batch_size), in order
RangeWide(n, size) == {i \in 0..(n - 1) : i % (size + 1) = 0}
Range(n, size) == {i \in 0..(n - 1) : i % size = 0}
Starts(n, size) ==
    LET r == Range(n, size)
    IN [j \in 1..Cardinality(r) |-> CHOOSE i \in r : Cardinality({k \in r : k < i}) = j - 1]

\* the positions of objects[i:i + self._batch_size]
Slice(n, i, size) == [k \in 1..(Min(i + size, n) - i) |-> i + k]

\* the batches of the loop, as positions in the input list
Batches(n, size) == [j \in DOMAIN Starts(n, size) |-> Slice(n, Starts(n, size)[j], size)]

Positions(batches) == UNION {{b[k] : k \in DOMAIN b} : b \in {batches[j] : j \in DOMAIN batches}}

\* store.bulk_write(operations, ordered=False) tries every operation and
\* raises BulkWriteError when one of them failed: the loop reaches the
\* batches up to the first one that holds a failing operation.
Failing(batch, fails) == {batch[k] : k \in DOMAIN batch} \cap fails # {}
Reached(batches, fails) ==
    LET bad == {j \in DOMAIN batches : Failing(batches[j], fails)}
    IN IF bad = {} THEN batches
       ELSE SubSeq(batches, 1, CHOOSE j \in bad : \A k \in bad : j <= k)

\* if not obj.pk: obj.pk = uuid.uuid4().hex, for the objects of the
\* batches reached, in list order
AssignPks(objs, touched) ==
    [i \in DOMAIN objs |->
        IF i \in touched /\ NotPk(objs[i].pk)
        THEN [pk |-> Uuid(uuids + Cardinality({k \in touched : k <= i /\ NotPk(objs[k].pk)}))]
        ELSE objs[i]]
Drawn(objs, touched) == Cardinality({k \in touched : NotPk(objs[k].pk)})

\* ReplaceOne({'_id': obj.pk}, encoded_attrs, upsert=True) for each position
Upsert(st, objs, written) ==
    {e \in st : \A i \in written : e[1] # objs[i].pk} \cup {<<objs[i].pk, i>> : i \in written}

\* DeleteOne({'_id': obj.pk}) for each position
DeleteIds(st, objs, removed) == {e \in st : \A i \in removed : e[1] # objs[i].pk}

\* the lists of documents a caller can hand over: two documents of one
\* collection never carry the same pk
SeqOf(S, n) == UNION {[1..k -> S] : k \in 0..n}
ObjectLists ==
    {objs \in SeqOf([pk : BatchPks], MaxBatchObjs) :
        \A i \in DOMAIN objs, j \in DOMAIN objs :
            i # j /\ objs[i].pk # None => objs[i].pk # objs[j].pk}

\* the documents that carry a pk were stored under it before
Persisted(objs) == {<<objs[i].pk, i>> : i \in {k \in DOMAIN objs : objs[k].pk # None}}

BatchInit ==
    /\ batch_size \in 1..MaxBatchSize
    /\ objects \in ObjectLists
    /\ store \in {{}, Persisted(objects)}
    /\ uuids = 0
    /\ batchCall = [op |-> "init", before |-> objects, stored |-> store, fails |-> {},
                    batches |-> <<>>, raised |-> "", reported |-> {},
                    result |-> <<>>]
    /\ ncalls = 0
    /\ BackendIdle /\ CacheIdle /\ QueryIdle /\ DotIdle

save_update(i, fail) ==
    /\ ncalls < MaxBatchCalls
    /\ i \in DOMAIN objects
    /\ objects' = AssignPks(objects, {i})
    /\ uuids' = uuids + Drawn(objects, {i})
    /\ store' = IF fail THEN store ELSE Upsert(store, objects', {i})
    /\ batchCall' = [op |-> "save_update", before |-> objects, stored |-> store,
                     fails |-> IF fail THEN {i} ELSE {}, batches |-> << <<i>> >>,
                     raised |-> IF fail THEN "DuplicateKeyError" ELSE "",
                     reported |-> IF fail THEN {i} ELSE {},
                     result |-> IF fail THEN <<>> ELSE <<objects'[i].pk>>]
    /\ ncalls' = ncalls + 1
    /\ UNCHANGED <<batch_size, exceptBatch>>

_batch_save_objects(fails) ==
    /\ ncalls < MaxBatchCalls
    /\ fails \subseteq DOMAIN objects
    /\ LET reached == Reached(Batches(Len(objects), batch_size), fails)
           touched == Positions(reached)
           failed == touched \cap fails
       IN /\ objects' = AssignPks(objects, touched)
          /\ uuids' = uuids + Drawn(objects, touched)
          /\ store' = Upsert(store, objects', touched \ failed)
          /\ batchCall' = [op |-> "_batch_save_objects", before |-> objects,
                           stored |-> store, fails |-> failed, batches |-> reached,
                           raised |-> IF failed = {} THEN "" ELSE "NameError",
                           reported |-> {},
                           result |-> IF failed = {}
                                      THEN [i \in DOMAIN objects |-> objects'[i].pk]
                                      ELSE <<>>]
    /\ ncalls' = ncalls + 1
    /\ UNCHANGED <<batch_size, exceptBatch>>

_batch_delete_objects(fails) ==
    /\ ncalls < MaxBatchCalls
    /\ fails \subseteq DOMAIN objects
    /\ LET reached == Reached(Batches(Len(objects), batch_size), fails)
           touched == Positions(reached)
           failed == touched \cap fails
       IN /\ store' = DeleteIds(store, objects, touched \ failed)
          /\ batchCall' = [op |-> "_batch_delete_objects", before |-> objects,
                           stored |-> store, fails |-> failed, batches |-> reached,
                           raised |-> IF failed = {} THEN "" ELSE "BulkWriteError",
                           reported |-> failed,
                           result |-> <<>>]
    /\ ncalls' = ncalls + 1
    /\ UNCHANGED <<batch_size, objects, uuids, exceptBatch>>

BatchNext ==
    \/ \E i \in 1..MaxBatchObjs, fail \in BOOLEAN : save_update(i, fail)
    \/ \E fails \in SUBSET (1..MaxBatchObjs) : _batch_save_objects(fails)
    \/ \E fails \in SUBSET (1..MaxBatchObjs) : _batch_delete_objects(fails)

SpecBatch == BatchInit /\ [][BatchNext]_vars

\* ================================================== _canonicalize_query
\* A query value: a scalar, a Document, a list, a tuple or a dict. Every value
\* has the same fields; a list, tuple or dict keeps its items in order, a list
\* or tuple under empty keys.
Scalar(s) == [t |-> "str", s |-> s, pk |-> None, items |-> <<>>]
Number(n) == [t |-> "int", s |-> "", pk |-> n, items |-> <<>>]
Document(coll, pk) == [t |-> "Document", s |-> coll, pk |-> pk, items |-> <<>>]
List(xs) == [t |-> "list", s |-> "", pk |-> None,
             items |-> [i \in DOMAIN xs |-> [key |-> "", value |-> xs[i]]]]
Tuple(xs) == [t |-> "tuple", s |-> "", pk |-> None,
              items |-> [i \in DOMAIN xs |-> [key |-> "", value |-> xs[i]]]]
Dict(its) == [t |-> "dict", s |-> "", pk |-> None, items |-> its]

\* key.startswith("$")
StartsWithDollar(key) == key \in {"$in", "$all", "$ne"}

\* bool(x) of a query value
Truthy(x) ==
    CASE x.t \in {"list", "tuple", "dict"} -> x.items # <<>>
      [] x.t = "str" -> x.s # ""
      [] x.t = "int" -> x.pk # 0
      [] OTHER -> TRUE

\* isinstance(list(value.values())[0][0], Document), for a list or tuple
FirstIsAny(x) == x.t \in {"list", "tuple"}
FirstIsDocument(x) == x.t \in {"list", "tuple"} /\ x.items[1].value.t = "Document"

\* new_key += ".pk" / ".__ref__"
RefKey(key) == key \o (IF use_pk_based_refs THEN ".pk" ELSE ".__ref__")

\* the key under which the item goes into nq (lines 425-443)
NewKey(key, value) ==
    IF value.t = "dict" /\ Len(value.items) = 1 /\ StartsWithDollar(value.items[1].key)
    THEN IF /\ value.items[1].key \in {"$all", "$in"}
            /\ Truthy(value.items[1].value)
            /\ FirstIsDocument(value.items[1].value)
         THEN RefKey(key)
         ELSE key
    ELSE IF value.t = "Document" THEN RefKey(key) ELSE key

\* the Document branch (lines 450-456)
DocumentKept(q) == q
DocumentRef(q) ==
    IF use_pk_based_refs THEN Number(q.pk) ELSE Scalar(q.s \o ":" \o ToString(q.pk))

\* self.query_encoders: no encoder is registered
query_encoders == <<>>

\* for encoder in self.query_encoders: q = encoder.encode(q, [])
RECURSIVE ApplyEncoders(_, _)
ApplyEncoders(encoders, q) ==
    IF encoders = <<>> THEN q ELSE ApplyEncoders(Tail(encoders), Head(encoders)[q])

RECURSIVE transform_query(_)
RECURSIVE TransformItems(_, _)
\* nq[new_key] = transform_query(value), item by item
TransformItems(its, nq) ==
    IF its = <<>> THEN nq
    ELSE TransformItems(Tail(its),
             SetItem(nq, NewKey(Head(its).key, Head(its).value),
                     transform_query(Head(its).value)))

transform_query(q0) ==
    LET q == ApplyEncoders(query_encoders, q0)
    IN CASE q.t = "dict" -> Dict(TransformItems(q.items, <<>>))
         [] q.t \in {"list", "tuple"} ->
               List([i \in DOMAIN q.items |-> transform_query(q.items[i].value)])
         [] q.t = "Document" -> DocumentRef(q)
         [] OTHER -> q

\* the queries a caller builds, to a bounded depth
QueryLeaves == {Scalar(v) : v \in Vals} \cup {Document(c, pk) : c \in Colls, pk \in PKs}
FlatSeqs == UNION {{List(xs), Tuple(xs)} : xs \in SeqOf(QueryLeaves, MaxItems)}
NestedSeqs == UNION {{List(<<x>>), Tuple(<<x, y>>)} : x \in FlatSeqs, y \in QueryLeaves}
OperatorDicts ==
    {Dict(<<[key |-> op, value |-> x]>>) : op \in {"$in", "$all"}, x \in FlatSeqs}
        \cup {Dict(<<[key |-> "$ne", value |-> x]>>) : x \in QueryLeaves}
QueryValues == QueryLeaves \cup FlatSeqs \cup OperatorDicts
Queries ==
    {Dict(<<>>)}
        \cup {Dict(<<[key |-> "author", value |-> x]>>) : x \in QueryValues \cup NestedSeqs}
        \cup {Dict(<<[key |-> "author", value |-> x], [key |-> "tags", value |-> y]>>) :
                 x \in QueryValues, y \in QueryLeaves}
        \cup {Dict(<<[key |-> "author", value |-> Dict(<<[key |-> "tags", value |-> x]>>)]>>) :
                 x \in QueryValues}

QueryInit ==
    /\ use_pk_based_refs \in BOOLEAN
    /\ query \in Queries
    /\ queryCall = [op |-> "init", arg |-> Dict(<<>>), result |-> Dict(<<>>)]
    /\ ncalls = 0
    /\ BackendIdle /\ CacheIdle /\ BatchIdle /\ DotIdle

\* the caller canonicalizes its query, or the result of the call before
_canonicalize_query(again) ==
    /\ ncalls < MaxPasses
    /\ again => queryCall.op # "init"
    /\ LET arg == IF again THEN queryCall.result ELSE query
       IN queryCall' = [op |-> IF again THEN "again" ELSE "first", arg |-> arg,
                        result |-> transform_query(arg)]
    /\ ncalls' = ncalls + 1
    /\ UNCHANGED <<use_pk_based_refs, query, exceptQuery>>

QueryNext == \E again \in BOOLEAN : _canonicalize_query(again)

SpecQuery == QueryInit /\ [][QueryNext]_vars

\* ============================================================ DotEncoder
\* A string is the sequence of its pieces: ".", ":", the ten characters
\* "a5b8afc131" taken as one piece, and "x" for any other character.
Dot == <<".">>
DOT_MAGIC_VALUE == <<":", "a5b8afc131", ":">>
Pieces == {".", ":", "a5b8afc131", "x"}

\* a dict key: a str, or a key of another type (an int)
Str(chars) == [t |-> "str", chars |-> chars]
NotStr == [t |-> "int", chars |-> <<>>]

StartsWith(s, old) == Len(s) >= Len(old) /\ SubSeq(s, 1, Len(old)) = old

\* str.replace(old, new): the occurrences of old from the left, none
\* overlapping another
RECURSIVE replace(_, _, _)
replace(s, old, new) ==
    IF s = <<>> THEN <<>>
    ELSE IF StartsWith(s, old)
         THEN new \o replace(SubSeq(s, Len(old) + 1, Len(s)), old, new)
         ELSE <<Head(s)>> \o replace(Tail(s), old, new)

\* replace_key (lines 53-57)
replace_key(key) ==
    IF key.t = "str" THEN Str(replace(key.chars, Dot, DOT_MAGIC_VALUE)) ELSE key

\* {replace_key(key): value for key, value in obj.items()}
RECURSIVE EncodeItems(_, _)
EncodeItems(its, out) ==
    IF its = <<>> THEN out
    ELSE EncodeItems(Tail(its), SetItem(out, replace_key(Head(its).key), Head(its).value))

\* DotEncoder.encode(obj, path) of a dict
encode(obj) == EncodeItems(obj, <<>>)

\* key.replace(cls.DOT_MAGIC_VALUE, "."): a key that is no str has no
\* replace and the call raises AttributeError
decode_key(key) == Str(replace(key.chars, DOT_MAGIC_VALUE, Dot))
Decodable(obj) == \A i \in DOMAIN obj : obj[i].key.t = "str"

\* {key.replace(...): value for key, value in obj.items()}
RECURSIVE DecodeItems(_, _)
DecodeItems(its, out) ==
    IF its = <<>> THEN out
    ELSE DecodeItems(Tail(its), SetItem(out, decode_key(Head(its).key), Head(its).value))

\* DotEncoder.decode(obj) of a dict
decode(obj) == DecodeItems(obj, <<>>)

\* the dicts a caller holds: up to two items under different keys
DotKeys == {Str(cs) : cs \in SeqOf(Pieces, MaxKeyLen)} \cup {NotStr}
Mappings ==
    {<<>>} \cup {<<[key |-> k, value |-> "a"]>> : k \in DotKeys}
           \cup {m \in {<<[key |-> k1, value |-> "a"], [key |-> k2, value |-> "b"]>> :
                            k1 \in DotKeys, k2 \in DotKeys} : m[1].key # m[2].key}

DotInit ==
    /\ mapping \in Mappings
    /\ dotCall = [op |-> "init", arg |-> <<>>, result |-> <<>>, raised |-> ""]
    /\ ncalls = 0
    /\ BackendIdle /\ CacheIdle /\ BatchIdle /\ QueryIdle

DotEncoder_encode ==
    /\ dotCall.op = "init"
    /\ dotCall' = [op |-> "encode", arg |-> mapping, result |-> encode(mapping),
                   raised |-> ""]
    /\ ncalls' = ncalls + 1
    /\ UNCHANGED <<mapping, exceptDot>>

\* the caller decodes what encode returned, or the dict it holds
DotEncoder_decode ==
    /\ dotCall.op # "decode"
    /\ LET arg == IF dotCall.op = "encode" THEN dotCall.result ELSE mapping
       IN dotCall' = [op |-> "decode", arg |-> arg,
                      result |-> IF Decodable(arg) THEN decode(arg) ELSE <<>>,
                      raised |-> IF Decodable(arg) THEN "" ELSE "AttributeError"]
    /\ ncalls' = ncalls + 1
    /\ UNCHANGED <<mapping, exceptDot>>

DotNext == DotEncoder_encode \/ DotEncoder_decode

SpecDot == DotInit /\ [][DotNext]_vars

\* ================================================================ claims
SaveOps == {"save", "save_multiple"}
WriteOps == SaveOps \cup {"update", "delete", "delete_by_primary_keys"}
Deferred(call) == call.mode = "deferred"

\* C1: the pending update of a pk never has a field both in its $set side
\* and in its $unset side, whatever update calls staged it.
C1_SetUnsetDisjoint ==
    \A c \in Colls : \A pk \in DOMAIN update_cache[c] :
        (DOMAIN update_cache[c][pk].set) \cap update_cache[c][pk].unset = {}

\* C2: the pending update of a pk is last-instruction-wins per field: a
\* field is on the $set side with value v exactly when the latest instruction
\* for it set it to v, and on the $unset side exactly when the latest
\* instruction for it unset it.
C2_LastInstructionWins ==
    \A c \in Colls : \A pk \in DOMAIN update_cache[c] : \A f \in Fields :
        LET e == update_cache[c][pk] IN
        /\ f \in DOMAIN e.set <=> lastInstr[c][pk][f] \in Vals
        /\ f \in DOMAIN e.set => e.set[f] = lastInstr[c][pk][f]
        /\ f \in e.unset <=> lastInstr[c][pk][f] = "unset"

\* C3: in deferred mode delete() of a pk that has a pending save puts the pk
\* in the delete cache and drops its pending save; only a later save puts a
\* pk back among the pending saves, and a commit sends no save of a pk that
\* has no pending save.
C3_DeleteDropsPendingSave ==
    [][/\ (lastCall'.op = "delete" /\ Deferred(lastCall') /\ lastCall'.saved # {})
            => /\ lastCall'.result = "ok"
               /\ lastCall'.pks \subseteq delete_cache'[lastCall'.cls]
               /\ lastCall'.pks \cap DOMAIN save_cache'[lastCall'.cls] = {}
       /\ lastCall'.op \notin SaveOps
            => \A c \in Colls : DOMAIN save_cache'[c] \subseteq DOMAIN save_cache[c]
       /\ lastCall'.op = "commit"
            => \A w \in lastCall'.writes :
                  w.kind = "save" => \E c \in Colls : w.pk \in DOMAIN save_cache[c]
      ]_vars

C3_Witness ==
    /\ lastCall.op = "delete" /\ Deferred(lastCall) /\ lastCall.saved # {}
    /\ lastCall.pks \subseteq delete_cache[lastCall.cls]

\* C4: in deferred mode an update with something to set or unset, on a pk
\* that is in the delete cache, raises DoesNotExist and leaves the save,
\* delete and update caches as they were.
C4_UpdateAfterDeleteFails ==
    [][(/\ lastCall'.op = "update" /\ Deferred(lastCall')
        /\ lastCall'.nonempty /\ lastCall'.deleted # {})
          => (lastCall'.result = "DoesNotExist" /\ UNCHANGED caches)]_vars

C4_Witness ==
    /\ lastCall.op = "update" /\ Deferred(lastCall)
    /\ lastCall.nonempty /\ lastCall.deleted # {}
    /\ lastCall.result = "DoesNotExist"
    /\ \E c \in Colls : DOMAIN update_cache[c] # {}

\* C5 as stated: a save of a pk that is in the delete cache leaves it there.
C5_SaveKeepsPendingDelete ==
    (lastCall.op \in SaveOps /\ Deferred(lastCall))
        => lastCall.deleted \subseteq delete_cache[lastCall.cls]

\* C5 amended: in deferred mode a save takes every pk it saves out of the
\* delete cache and puts it among the pending saves (the save cancels the
\* pending delete), and no other call takes a pk out of the delete cache.
C5_SaveCancelsPendingDelete ==
    [][/\ (lastCall'.op \in SaveOps /\ Deferred(lastCall'))
            => /\ delete_cache'[lastCall'.cls]
                    = delete_cache[lastCall'.cls] \ lastCall'.pks
               /\ lastCall'.pks \subseteq DOMAIN save_cache'[lastCall'.cls]
       /\ lastCall'.op \notin SaveOps
            => \A c \in Colls : delete_cache[c] \subseteq delete_cache'[c]
      ]_vars

C5_Witness ==
    /\ lastCall.op \in SaveOps /\ Deferred(lastCall) /\ lastCall.deleted # {}
    /\ lastCall.deleted \cap delete_cache[lastCall.cls] = {}
    /\ lastCall.deleted \subseteq DOMAIN save_cache[lastCall.cls]

\* C6: deletes take precedence at flush: a pk that is in the delete cache
\* when commit is called is not in the collection once commit has ended.
C6_DeletesWinAtFlush ==
    (lastCall.op = "commit" /\ Deferred(lastCall))
        => \A c \in Colls : \A pk \in lastCall.pending[c] : pk \notin DOMAIN db[c]

\* C7: a commit in deferred mode flushes: once it has ended the save, delete
\* and update caches of every collection are empty.
C7_CommitFlushes ==
    (lastCall.op = "commit" /\ Deferred(lastCall))
        => \A c \in Colls :
              /\ DOMAIN save_cache[c] = {}
              /\ delete_cache[c] = {}
              /\ DOMAIN update_cache[c] = {}

\* C9: delete() of a document whose pk is None raises DoesNotExist, sends
\* nothing to the collection and leaves the collection and the three caches
\* as they were.
C9_DeleteWithoutPkFails ==
    [][(lastCall'.op = "delete" /\ None \in lastCall'.args)
          => /\ lastCall'.result = "DoesNotExist"
             /\ lastCall'.writes = {}
             /\ UNCHANGED <<db, save_cache, delete_cache, update_cache>>]_vars

C9_Witness ==
    /\ lastCall.op = "delete" /\ None \in lastCall.args
    /\ lastCall.result = "DoesNotExist"
    /\ \E c \in Colls : DOMAIN save_cache[c] # {} /\ delete_cache[c] # {}

\* C10: with autocommit, save, save_multiple, update, delete and
\* delete_by_primary_keys leave the three caches as they were and, when they
\* end normally with something to do, send one write per pk to the
\* collection; in deferred mode they send no write and leave the collection
\* as it was.
WriteKind(op) ==
    IF op \in SaveOps THEN "save" ELSE IF op = "update" THEN "update" ELSE "remove"

C10_ModeFrame ==
    [][lastCall'.op \in WriteOps
          => IF lastCall'.mode = "autocommit"
             THEN /\ UNCHANGED caches
                  /\ (lastCall'.result = "ok" /\ lastCall'.nonempty)
                        => lastCall'.writes
                             = {Write(WriteKind(lastCall'.op), pk) : pk \in lastCall'.pks}
             ELSE /\ db' = db
                  /\ lastCall'.writes = {}]_vars

C10_Witness ==
    /\ lastCall.op = "save" /\ lastCall.mode = "autocommit"
    /\ lastCall.writes # {}
    /\ \E c \in Colls : \E pk \in lastCall.pks : pk \in DOMAIN db[c] /\ pk # 1

\* C19: in deferred mode no pk is a key of the save cache and of the delete
\* cache of one collection at the same time.
C19_SaveDeleteDisjoint ==
    \A c \in Colls : (DOMAIN save_cache[c]) \cap delete_cache[c] = {}

\* C20: in deferred mode no pk is in the delete cache and a key of the update
\* cache of one collection at the same time.
C20_DeleteUpdateDisjoint ==
    \A c \in Colls : delete_cache[c] \cap (DOMAIN update_cache[c]) = {}

\* ------------------------------------------------------------------ C11
Oldest(d, times) == CHOOSE k \in Keys(d) : \A j \in Keys(d) : times[k] <= times[j]
Distinct(q) == Cardinality({q[i] : i \in DOMAIN q}) = Len(q)

\* C11: a set on a full cache evicts exactly one entry, the one that entered
\* the cache earliest among those held, then holds the new entry; a set on a
\* cache that is not full evicts nothing; a get changes neither the cache nor
\* the order of eviction and returns the held value; and after capacity+1
\* distinct keys were set on an empty cache the first of them is absent and
\* the others are present.
C11_InsertionOrderEviction ==
    LET before == cacheCall.before
        was == cacheCall.was
    IN /\ cacheCall.op = "set" /\ Len(before) >= max_size =>
            /\ Keys(cache) = (Keys(before) \ {Oldest(before, was)}) \cup {cacheCall.key}
            /\ Value(cache, cacheCall.key) = cacheCall.value
            /\ \A k \in Keys(cache) \ {cacheCall.key} : Value(cache, k) = Value(before, k)
       /\ cacheCall.op = "set" /\ Len(before) < max_size =>
            /\ Keys(cache) = Keys(before) \cup {cacheCall.key}
            /\ Value(cache, cacheCall.key) = cacheCall.value
       /\ cacheCall.op = "get" =>
            /\ cache = before
            /\ inserted = was
            /\ cacheCall.result = Value(before, cacheCall.key)
       /\ Len(sets) = max_size + 1 /\ Distinct(sets) =>
            /\ Value(cache, sets[1]) = Absent
            /\ \A i \in 2..Len(sets) : Value(cache, sets[i]) # Absent

\* capacity+1 distinct keys were set, the last of them on a full cache
C11_Witness ==
    /\ cacheCall.op = "set"
    /\ max_size = MaxSize
    /\ Len(cacheCall.before) = max_size
    /\ cacheCall.key \notin Keys(cacheCall.before)
    /\ Len(sets) = max_size + 1
    /\ Distinct(sets)

\* ------------------------------------------------------------------ C12
BatchOps == {"_batch_save_objects", "_batch_delete_objects"}
Ceil(n, size) == (n + size - 1) \div size
RECURSIVE Flatten(_)
Flatten(qs) == IF qs = <<>> THEN <<>> ELSE Head(qs) \o Flatten(Tail(qs))

\* C12: the batches a batch save or batch delete submits are consecutive
\* slices of the input list in input order, each of at most batch_size
\* elements and each but the last of the split of exactly batch_size; when no
\* bulk write fails there are ceil(n / batch_size) of them and their
\* concatenation is the whole input list.
C12_Chunking ==
    batchCall.op \in BatchOps =>
        LET n == Len(batchCall.before)
            b == batchCall.batches
            flat == Flatten(b)
        IN /\ flat = [k \in 1..Len(flat) |-> k]
           /\ Len(b) <= Ceil(n, batch_size)
           /\ \A j \in DOMAIN b :
                /\ Len(b[j]) >= 1
                /\ Len(b[j]) <= batch_size
                /\ j < Ceil(n, batch_size) => Len(b[j]) = batch_size
           /\ batchCall.fails = {} =>
                /\ Len(b) = Ceil(n, batch_size)
                /\ Len(flat) = n

\* three documents saved in batches of two and one
C12_Witness ==
    /\ batchCall.op = "_batch_save_objects"
    /\ batchCall.fails = {}
    /\ batch_size = 2
    /\ Len(batchCall.before) = 3
    /\ batchCall.batches = << <<1, 2>>, <<3>> >>

\* ------------------------------------------------------------------ C13
\* C13: a batch save or batch delete submits every batch of the split,
\* ceil(n / batch_size) of them, whatever entries fail.
C13_LaterBatchesSubmitted ==
    batchCall.op \in BatchOps =>
        Len(batchCall.batches) = Ceil(Len(batchCall.before), batch_size)

\* ------------------------------------------------------------------ C14
\* C14: when entries of a batch save fail, the caller is told exactly the
\* entries that failed, the entries that succeeded are in the store, and no
\* identity returned as saved belongs to an entry that failed.
C14_FailuresReported ==
    batchCall.op = "_batch_save_objects" /\ batchCall.fails # {} =>
        /\ batchCall.reported = batchCall.fails
        /\ \A i \in Positions(batchCall.batches) \ batchCall.fails :
              <<objects[i].pk, i>> \in store
        /\ \A i \in batchCall.fails, k \in DOMAIN batchCall.result :
              batchCall.result[k] # objects[i].pk

\* ------------------------------------------------------------------ C15
SavePaths == {"save_update", "_batch_save_objects"}

\* C15: a save gives each document without a pk a fresh pk that no other
\* document carries, never changes a pk that is assigned, and leaves the
\* store with at most one copy of each document.
C15_PkAssignedOnce ==
    batchCall.op \in SavePaths =>
        /\ \A i \in DOMAIN objects :
              batchCall.before[i].pk # None => objects[i].pk = batchCall.before[i].pk
        /\ \A i \in Positions(batchCall.batches) :
              /\ objects[i].pk # None
              /\ \A j \in DOMAIN objects : j # i => objects[j].pk # objects[i].pk
        /\ \A e1 \in store, e2 \in store : e1[2] = e2[2] => e1 = e2

\* ------------------------------------------------------------------ C16
RECURSIVE HasDocument(_)
HasDocument(q) ==
    q.t = "Document" \/ \E i \in DOMAIN q.items : HasDocument(q.items[i].value)
HasTuple(q) == \E i \in DOMAIN q.items : \E j \in DOMAIN q.items[i].value.items :
                  q.items[i].value.items[j].value.t = "tuple"

\* C16: canonicalizing the result of a canonicalization, under the same
\* setting of use_pk_based_refs, gives back that result.
C16_Idempotent ==
    queryCall.op = "again" => queryCall.result = queryCall.arg

\* a query with a Document and a tuple was canonicalized, then its result
C16_Witness ==
    /\ queryCall.op = "again"
    /\ HasDocument(query)
    /\ HasTuple(query)
    /\ queryCall.arg # query

\* ------------------------------------------------------------------ C17
\* the reference encoding of a Document
RefEncoding(d) ==
    IF use_pk_based_refs THEN Number(d.pk) ELSE Scalar(d.s \o ":" \o ToString(d.pk))

\* r is q with every Document, at any depth, replaced by its reference
\* encoding, every scalar as it was, and every list or tuple as a list
RECURSIVE Replaced(_, _)
Replaced(q, r) ==
    CASE q.t = "Document" -> r = RefEncoding(q)
      [] q.t \in {"list", "tuple"} ->
            /\ r.t = "list"
            /\ Len(r.items) = Len(q.items)
            /\ \A i \in DOMAIN q.items : Replaced(q.items[i].value, r.items[i].value)
      [] q.t = "dict" ->
            /\ r.t = "dict"
            /\ Len(r.items) = Len(q.items)
            /\ \A i \in DOMAIN q.items : Replaced(q.items[i].value, r.items[i].value)
      [] OTHER -> r = q

\* C17: the result of a canonicalization holds no Document at any depth:
\* each Document of the argument is replaced by its pk when
\* use_pk_based_refs is on and by "<collection>:<pk>" when it is off, and
\* scalars are as they were.
C17_NoDocumentLeft ==
    queryCall.op # "init" =>
        /\ ~HasDocument(queryCall.result)
        /\ Replaced(queryCall.arg, queryCall.result)

\* a Document inside a tuple inside an operator was canonicalized
C17_Witness ==
    /\ queryCall.op = "first"
    /\ queryCall.arg = query
    /\ query.items # <<>>
    /\ query.items[1].value.t = "dict"
    /\ query.items[1].value.items[1].key = "$in"
    /\ query.items[1].value.items[1].value.t = "tuple"
    /\ HasDocument(query.items[1].value.items[1].value)

\* ------------------------------------------------------------------ C18
Contains(s, sub) == \E i \in 1..Len(s) : StartsWith(SubSeq(s, i, Len(s)), sub)
SentinelFree(m) == \A i \in DOMAIN m : ~Contains(m[i].key.chars, DOT_MAGIC_VALUE)

\* C18: decoding the encoding of a mapping none of whose keys contains the
\* sentinel gives back the mapping, same keys and same values, and no key of
\* the encoding contains ".".
C18_RoundTrip ==
    SentinelFree(mapping) =>
        /\ dotCall.op = "encode" =>
              \A i \in DOMAIN dotCall.result : ~Contains(dotCall.result[i].key.chars, Dot)
        /\ dotCall.op = "decode" /\ dotCall.arg = encode(mapping) =>
              /\ dotCall.raised = ""
              /\ dotCall.result = mapping

\* ------------------------------------------------------------------ C21
\* C21: in deferred mode an update that raises DoesNotExist because its pk is
\* in the delete cache leaves the object as it was handed in: no set field
\* written to it, no unset field removed from it (with update_obj off the
\* object is never touched, so the statement is about update_obj on).
C21_FailedUpdateKeepsObj ==
    (/\ lastCall.op = "update" /\ Deferred(lastCall)
     /\ lastCall.deleted # {} /\ lastCall.result = "DoesNotExist")
        => \E d \in UpdateDocs : lastCall.obj = d.attributes

\* ------------------------------------------------------------------ C22
\* a value with one operator: {"$in": [...]}, {"$all": [...]}, {"$ne": x}
SingleOperator(v) ==
    v.t = "dict" /\ Len(v.items) = 1 /\ StartsWithDollar(v.items[1].key)

\* C22: for every item of a canonicalized mapping whose value is a Document
\* or a single-operator value, the key is rewritten to the ".pk" / ".__ref__"
\* sub-field exactly when a Document of the value was replaced by its
\* reference encoding.
C22_KeyRewrittenIffRecord ==
    queryCall.op = "first" =>
        \A i \in DOMAIN queryCall.arg.items :
            LET key == queryCall.arg.items[i].key
                value == queryCall.arg.items[i].value
            IN (value.t = "Document" \/ SingleOperator(value)) =>
                  ((queryCall.result.items[i].key = RefKey(key)) <=> HasDocument(value))

\* ------------------------------------------------------------------ C23
\* C23: the cache never holds more than max_size entries; a key that is held
\* has the value of its latest set, which is what get returns; and a set on a
\* key that is already held evicts no other key.
C23_SetOnHeldKeyEvictsNone ==
    LET before == cacheCall.before
    IN /\ Len(cache) <= max_size
       /\ cacheCall.op = "set" =>
            /\ Value(cache, cacheCall.key) = cacheCall.value
            /\ \A k \in Keys(cache) \ {cacheCall.key} : Value(cache, k) = Value(before, k)
       /\ cacheCall.op = "get" => cacheCall.result = Value(cache, cacheCall.key)
       /\ cacheCall.op = "set" /\ cacheCall.key \in Keys(before) =>
            Keys(cache) = Keys(before)

====
